---- MODULE Spec2Model ----
(***************************************************************************)
(* DDS-Importer.py: a docked panel of a texturing application that         *)
(* converts DDS textures with two external tools (texconv, bcdecode),      *)
(* splits the alpha channel off the converted PNG and hands the results    *)
(* to the host's resource import.                                          *)
(*                                                                         *)
(* Every button handler runs to completion on the UI thread.  The handlers *)
(* are single actions, except on_import_dds, whose loop is one action per  *)
(* step of the per-file pipeline (pc, i).  What the handler drew from its  *)
(* surroundings (dialog answers, exit codes, host import results, whether  *)
(* the settings file can be written) is an input of the action.            *)
(***************************************************************************)
EXTENDS Integers, Sequences, FiniteSets, TLC

VARIABLES
    PLUGIN_INSTANCE,  \* "None" | "plugin": the module global
    config,           \* self.config: [hasPaths, paths], paths: option -> raw value
    cfgFile,          \* DDS-Importer.ini on disk: [exists, hasPaths, paths]
    exes,             \* the paths for which os.path.isfile holds
    ddsContent,       \* what texconv makes of each DDS file on disk
    png,              \* the PNG files on disk: path -> image
    log,              \* self.log_window: the lines appended since the last clear
    logVisible,       \* self.log_window.isVisible()
    handler,          \* the handler invoked last (running while pc # "idle")
    pc,               \* on_import_dds: the step about to run for dds_files[i]
    dds_files,        \* on_import_dds: the selection being processed
    i,                \* on_import_dds: index of dds_file in dds_files
    calls,            \* what the handler invoked last has called outside the plugin
    logStart,         \* Len(log) when the handler invoked last was entered
    raised            \* the handler invoked last ended with an unhandled exception

vars == <<PLUGIN_INSTANCE, config, cfgFile, exes, ddsContent, png, log,
          logVisible, handler, pc, dds_files, i, calls, logStart, raised>>

(***************************************************************************)
(* Bounds of the model.                                                    *)
(***************************************************************************)
\* A button is pressed only while the log holds at most MaxLog lines.
MaxLog == 1
\* Pixel values are 0..MaxPixel.
MaxPixel == 1

Pixel == 0..MaxPixel

(***************************************************************************)
(* Paths.  A path is [stem, ext]; the stem is a sequence of pieces, so     *)
(* that a suffix can be appended and a "%" inside a path is a piece of its *)
(* own.                                                                    *)
(***************************************************************************)
EmptyPath == [stem |-> << >>, ext |-> ""]
NotSet == [stem |-> <<"Not set">>, ext |-> ""]

DefaultTexconv == [stem |-> <<"C:\\\\DirectXTex\\\\Texconv\\\\texconv">>, ext |-> ".exe"]
DefaultBcdecode == [stem |-> <<"C:\\\\fo76utils\\\\bcdecode">>, ext |-> ".exe"]

\* Executables a user can pick in the file dialog.
PlainExe == [stem |-> <<"C:/tools/tool">>, ext |-> ".exe"]
PercentExe == [stem |-> <<"C:/tools/100", "%", "/tool">>, ext |-> ".exe"]
EscapedExe == [stem |-> <<"C:/tools/100", "%", "%", "/tool">>, ext |-> ".exe"]

\* DDS files a user can pick in the file dialog.
DdsX == [stem |-> <<"x">>, ext |-> ".dds"]
DdsXAlpha == [stem |-> <<"x", "_alpha">>, ext |-> ".dds"]
DdsFiles == {DdsX, DdsXAlpha}

\* os.path.splitext(dds_file)[0] + ".png"
OutputPng(dds_file) == [stem |-> dds_file.stem, ext |-> ".png"]
\* os.path.splitext(dds_file)[0] + "_alpha.png"
OutputAlphaPng(dds_file) == [stem |-> Append(dds_file.stem, "_alpha"), ext |-> ".png"]

PngPaths == {OutputPng(f) : f \in DdsFiles} \cup {OutputAlphaPng(f) : f \in DdsFiles}

(***************************************************************************)
(* Images: the mode, one value for the colour bands, one for the alpha     *)
(* band (-1 where the mode has none).                                      *)
(***************************************************************************)
NoFile == [mode |-> "no file", color |-> 0, alpha |-> -1]
Corrupt == [mode |-> "undecodable", color |-> 0, alpha |-> -1]
Img(mode, color, alpha) == [mode |-> mode, color |-> color, alpha |-> alpha]

\* Image.getbands()
getbands(img) ==
    CASE img.mode = "RGBA" -> {"R", "G", "B", "A"}
      [] img.mode = "RGB" -> {"R", "G", "B"}
      [] img.mode = "LA" -> {"L", "A"}
      [] img.mode = "L" -> {"L"}
      [] OTHER -> {}

Images ==
    {Img("RGB", c, -1) : c \in Pixel} \cup {Img("L", c, -1) : c \in Pixel}
    \cup {Img("RGBA", c, a) : c \in Pixel, a \in Pixel}
    \cup {Img("LA", c, a) : c \in Pixel, a \in Pixel}

\* What texconv writes for a DDS file it can convert.
TexconvOutputs ==
    {Img("RGB", 0, -1), Img("RGBA", 0, MaxPixel), Img("LA", 0, MaxPixel), Corrupt}
\* A DDS file on disk: texconv converts it to one of TexconvOutputs, or fails.
TexconvFails == [mode |-> "texconv fails", color |-> 0, alpha |-> -1]
DdsContents == TexconvOutputs \cup {TexconvFails}

(***************************************************************************)
(* Image post-processor.  Each function returns the file system it leaves  *)
(* and how it ended: its return value, or the exception it raised.         *)
(***************************************************************************)
\* Image.open(path): the image, or the exception.
ImageOpen(fs, path) ==
    CASE fs[path] = NoFile -> "FileNotFoundError"
      [] fs[path] = Corrupt -> "UnidentifiedImageError"
      [] OTHER -> "ok"

\* extract_alpha_channel saving the first band instead of the "A" band.
ExtractFirstBand(fs, input_png, output_alpha_png) ==
    LET img == fs[input_png] IN
    CASE ImageOpen(fs, input_png) = "FileNotFoundError" -> [fs |-> fs, ret |-> "FileNotFoundError"]
      [] ImageOpen(fs, input_png) = "UnidentifiedImageError" -> [fs |-> fs, ret |-> "RuntimeError"]
      [] img.mode \in {"RGBA", "LA"} \/ "A" \in getbands(img) ->
            [fs |-> [fs EXCEPT ![output_alpha_png] = Img("L", img.color, -1)], ret |-> "True"]
      [] OTHER -> [fs |-> fs, ret |-> "False"]

extract_alpha_channel(fs, input_png, output_alpha_png) ==
    LET img == fs[input_png] IN
    CASE ImageOpen(fs, input_png) = "FileNotFoundError" -> [fs |-> fs, ret |-> "FileNotFoundError"]
      [] ImageOpen(fs, input_png) = "UnidentifiedImageError" -> [fs |-> fs, ret |-> "RuntimeError"]
      [] img.mode \in {"RGBA", "LA"} \/ "A" \in getbands(img) ->
            \* alpha = img.getchannel("A"); alpha.save(output_alpha_png)
            [fs |-> [fs EXCEPT ![output_alpha_png] = Img("L", img.alpha, -1)], ret |-> "True"]
      [] OTHER -> [fs |-> fs, ret |-> "False"]

remove_alpha_channel(fs, input_png) ==
    LET img == fs[input_png] IN
    CASE ImageOpen(fs, input_png) = "FileNotFoundError" -> [fs |-> fs, ret |-> "FileNotFoundError"]
      [] ImageOpen(fs, input_png) = "UnidentifiedImageError" -> [fs |-> fs, ret |-> "RuntimeError"]
      [] img.mode = "RGBA" ->
            \* rgb_image = img.convert("RGB"); rgb_image.save(input_png)
            [fs |-> [fs EXCEPT ![input_png] = Img("RGB", img.color, -1)], ret |-> "None"]
      [] OTHER -> [fs |-> fs, ret |-> "None"]

(***************************************************************************)
(* Config store: configparser.ConfigParser() with its default              *)
(* BasicInterpolation.  A value is kept raw in memory and in the file      *)
(* (write() and read() leave a value without surrounding blanks as it is); *)
(* it is validated when set and interpolated when read with get.           *)
(***************************************************************************)
Options == {"texconv", "bcdecode"}
NoOptions == [o \in {} |-> EmptyPath]

\* configparser.ConfigParser(): no section yet.
NewConfigParser == [hasPaths |-> FALSE, paths |-> NoOptions]
NoIniFile == [exists |-> FALSE, hasPaths |-> FALSE, paths |-> NoOptions]

\* value.replace('%%', ''), on the pieces of a stem, left to right.
RECURSIVE DropEscapes(_)
DropEscapes(s) ==
    IF s = << >> THEN << >>
    ELSE IF Len(s) >= 2 /\ s[1] = "%" /\ s[2] = "%" THEN DropEscapes(SubSeq(s, 3, Len(s)))
    ELSE <<Head(s)>> \o DropEscapes(Tail(s))

\* BasicInterpolation.before_set: a "%" that escapes nothing is refused (ValueError).
before_set(value) == \A k \in 1..Len(DropEscapes(value.stem)) : DropEscapes(value.stem)[k] # "%"

\* BasicInterpolation._interpolate_some: "%%" reads as "%"; a "%" followed by
\* anything else raises InterpolationSyntaxError.
RECURSIVE Interpolate(_)
Interpolate(s) ==
    IF s = << >> THEN [ok |-> TRUE, val |-> << >>]
    ELSE IF Head(s) # "%" THEN
        LET r == Interpolate(Tail(s)) IN [ok |-> r.ok, val |-> <<Head(s)>> \o r.val]
    ELSE IF Len(s) >= 2 /\ s[2] = "%" THEN
        LET r == Interpolate(SubSeq(s, 3, Len(s))) IN [ok |-> r.ok, val |-> <<"%">> \o r.val]
    ELSE [ok |-> FALSE, val |-> << >>]

\* self.config["Paths"].get(option, fallback): [ok, val], ok FALSE when it raises.
Get(cfg, option, fallback) ==
    IF option \notin DOMAIN cfg.paths THEN [ok |-> TRUE, val |-> fallback]
    ELSE LET r == Interpolate(cfg.paths[option].stem) IN
         [ok |-> r.ok, val |-> [stem |-> r.val, ext |-> cfg.paths[option].ext]]

\* self.config["Paths"][option] = value
SetOption(cfg, option, value) ==
    [cfg EXCEPT !.paths = [o \in DOMAIN cfg.paths \cup {option} |->
                              IF o = option THEN value ELSE cfg.paths[o]]]

\* self.config.read(CONFIG_FILE): a missing file is skipped; the file's
\* sections and options are laid over the parser's.
ConfigRead(cfg, file) ==
    IF ~file.exists THEN cfg
    ELSE [hasPaths |-> cfg.hasPaths \/ file.hasPaths,
          paths |-> [o \in DOMAIN cfg.paths \cup DOMAIN file.paths |->
                        IF o \in DOMAIN file.paths THEN file.paths[o] ELSE cfg.paths[o]]]

\* self.config.write(configfile)
ConfigWrite(cfg) == [exists |-> TRUE, hasPaths |-> cfg.hasPaths, paths |-> cfg.paths]

Line(kind, path) == [kind |-> kind, path |-> path]

\* save_config: the file it leaves and the lines it logs; open(..., 'w') raises
\* IOError when the file cannot be written.
save_config(cfg, file, writable) ==
    IF writable THEN [file |-> ConfigWrite(cfg), lines |-> << >>]
    ELSE [file |-> file, lines |-> <<Line("Failed to save configuration", EmptyPath)>>]

DefaultPaths == [texconv |-> DefaultTexconv, bcdecode |-> DefaultBcdecode]

\* create_default_config with the two paths under each other's option.
SwappedDefaultConfig == [hasPaths |-> TRUE, paths |-> [texconv |-> DefaultBcdecode, bcdecode |-> DefaultTexconv]]

\* create_default_config: self.config["Paths"] = {...} (save_config follows in load_config).
DefaultConfig == [hasPaths |-> TRUE, paths |-> DefaultPaths]

\* load_config: the parser and the file it leaves, and the lines it logs.
load_config(file, writable) ==
    LET created == ~file.exists
        saved == IF created THEN save_config(DefaultConfig, file, writable)
                 ELSE [file |-> file, lines |-> << >>]
        cfg == IF created THEN DefaultConfig ELSE NewConfigParser
    IN [config |-> ConfigRead(cfg, saved.file), file |-> saved.file, lines |-> saved.lines]

\* display_initial_info: [ok, lines]; self.config["Paths"] raises KeyError
\* without the section, and get raises on a value it cannot interpolate.
display_initial_info(cfg) ==
    LET t == Get(cfg, "texconv", NotSet)
        b == Get(cfg, "bcdecode", NotSet)
    IN IF cfg.hasPaths /\ t.ok /\ b.ok
       THEN [ok |-> TRUE, lines |-> <<Line("texconv location", t.val),
                                      Line("bcdecode location", b.val)>>]
       ELSE [ok |-> FALSE, lines |-> << >>]

(***************************************************************************)
(* What a handler calls outside the plugin: subprocess.run (op "texconv",  *)
(* "bcdecode"), sp.resource.import_session_resource, QMessageBox.exec_     *)
(* (what: the title).  job is the dds_file of the loop, ok is whether the  *)
(* call succeeded (exit code 0, no exception).                             *)
(***************************************************************************)
Call(op, what, path, job, ok) == [op |-> op, what |-> what, path |-> path, job |-> job, ok |-> ok]

\* show_message_box(title, text)
show_message_box(title) == Call("QMessageBox", title, EmptyPath, EmptyPath, TRUE)

\* os.path.isfile(path)
isfile(path) == path \in exes

\* The check of the tool path without its os.path.isfile.
ToolMissingUnlessSet(exe) == exe = EmptyPath

\* "not exe or not os.path.isfile(exe)"; None and "" are both EmptyPath here.
ToolMissing(exe) == exe = EmptyPath \/ ~isfile(exe)

\* import_to_shelf: the call it makes and the line it logs (it catches every exception).
import_to_shelf(resource_path, job, ok) ==
    [calls |-> <<Call("import_session_resource", "", resource_path, job, ok)>>,
     lines |-> IF ok THEN <<Line("Imported to shelf", resource_path)>>
               ELSE <<Line("Failed to import to shelf", resource_path)>>]

(***************************************************************************)
(* Plugin lifecycle.                                                       *)
(***************************************************************************)
Running == PLUGIN_INSTANCE = "plugin"
\* A button can be pressed: the plugin runs, no handler is running.
Ready == Running /\ pc = "idle" /\ Len(log) <= MaxLog

\* start_plugin: DDSImporterPlugin.__init__ (load_config, display_initial_info,
\* check_pillow_installation); an exception leaves PLUGIN_INSTANCE unset.
start_plugin(writable) ==
    /\ PLUGIN_INSTANCE = "None"
    /\ LET loaded == load_config(cfgFile, writable)
           info == display_initial_info(loaded.config)
       IN /\ cfgFile' = loaded.file
          /\ IF info.ok
             THEN /\ PLUGIN_INSTANCE' = "plugin"
                  /\ config' = loaded.config
                  /\ log' = loaded.lines \o info.lines
                            \o <<Line("Pillow installed: Yes", EmptyPath)>>
                  /\ raised' = FALSE
             ELSE /\ PLUGIN_INSTANCE' = "None"
                  /\ config' = NewConfigParser
                  /\ log' = << >>
                  /\ raised' = TRUE
    /\ logVisible' = TRUE
    /\ handler' = "start_plugin"
    /\ calls' = << >>
    /\ logStart' = 0
    /\ dds_files' = << >>
    /\ i' = 0
    /\ UNCHANGED <<exes, ddsContent, png, pc>>

\* close_plugin: del PLUGIN_INSTANCE; __del__ removes the window.
close_plugin ==
    /\ Running /\ pc = "idle"
    /\ PLUGIN_INSTANCE' = "None"
    /\ config' = NewConfigParser
    /\ log' = << >>
    /\ logVisible' = TRUE
    /\ handler' = "close_plugin"
    /\ calls' = << >>
    /\ logStart' = 0
    /\ raised' = FALSE
    /\ dds_files' = << >>
    /\ i' = 0
    /\ UNCHANGED <<cfgFile, exes, ddsContent, png, pc>>

(***************************************************************************)
(* Log controls.                                                           *)
(***************************************************************************)
toggle_log_visibility ==
    /\ Ready
    /\ logVisible' = ~logVisible
    /\ handler' = "toggle_log_visibility"
    /\ calls' = << >>
    /\ logStart' = Len(log)
    /\ raised' = FALSE
    /\ dds_files' = << >>
    /\ i' = 0
    /\ UNCHANGED <<PLUGIN_INSTANCE, config, cfgFile, exes, ddsContent, png, log, pc>>

clear_log ==
    /\ Running /\ pc = "idle"
    /\ log' = << >>
    /\ handler' = "clear_log"
    /\ calls' = << >>
    /\ logStart' = 0
    /\ raised' = FALSE
    /\ dds_files' = << >>
    /\ i' = 0
    /\ UNCHANGED <<PLUGIN_INSTANCE, config, cfgFile, exes, ddsContent, png, logVisible, pc>>

(***************************************************************************)
(* Set location.  path is what QFileDialog.getOpenFileName returned        *)
(* (EmptyPath: the dialog was cancelled).                                  *)
(***************************************************************************)
SetLocation(name, option, setLine, unsetLine, path, writable) ==
    /\ Ready
    /\ handler' = name
    /\ calls' = << >>
    /\ logStart' = Len(log)
    /\ dds_files' = << >>
    /\ i' = 0
    /\ IF path = EmptyPath
       THEN /\ log' = Append(log, Line(unsetLine, EmptyPath))
            /\ raised' = FALSE
            /\ UNCHANGED <<config, cfgFile>>
       ELSE IF ~before_set(path)
       THEN \* self.config["Paths"][option] = path raises ValueError
            /\ raised' = TRUE
            /\ UNCHANGED <<config, cfgFile, log>>
       ELSE LET cfg == SetOption(config, option, path)
                saved == save_config(cfg, cfgFile, writable)
            IN /\ config' = cfg
               /\ cfgFile' = saved.file
               /\ log' = log \o saved.lines \o <<Line(setLine, path)>>
               /\ raised' = FALSE
    /\ UNCHANGED <<PLUGIN_INSTANCE, exes, ddsContent, png, logVisible, pc>>

set_texconv_location(texconv_path, writable) ==
    SetLocation("set_texconv_location", "texconv", "texconv location set to",
                "Texconv executable not set", texconv_path, writable)

set_bcdecode_location(bcdecode_path, writable) ==
    SetLocation("set_bcdecode_location", "bcdecode", "bcdecode location set to",
                "bcdecode executable not set", bcdecode_path, writable)

(***************************************************************************)
(* BC5 decode workflow.  bc5_input and out_dds are what the two file       *)
(* dialogs returned (EmptyPath: cancelled), decoded is whether bcdecode    *)
(* could be started and exited with code 0, imported is whether the host   *)
(* import returned without an exception.                                   *)
(***************************************************************************)
OutDds == [stem |-> <<"out">>, ext |-> ".dds"]

\* on_import_bc5 whose except clause also sees a failed import.
Bc5ModalOnImportFailure(bc5_input, out_dds, decoded, imported) ==
    LET run == <<Call("bcdecode", "", bc5_input, bc5_input, decoded)>> IN
    IF decoded
    THEN LET imp == import_to_shelf(out_dds, bc5_input, imported) IN
         [calls |-> run \o <<show_message_box("Import Successful")>> \o imp.calls
                    \o (IF imported THEN << >>
                        ELSE <<show_message_box("Error Importing BC5_SNORM DDS")>>),
          lines |-> <<Line("Running bcdecode", bc5_input),
                      Line("bcdecode successful", out_dds)>> \o imp.lines]
    ELSE [calls |-> run \o <<show_message_box("Error Importing BC5_SNORM DDS")>>,
          lines |-> <<Line("Running bcdecode", bc5_input),
                      Line("Error importing BC5_SNORM DDS", bc5_input)>>]

\* The calls and the log lines of on_import_bc5 from its try statement on.
Bc5Decode(bc5_input, out_dds, decoded, imported) ==
    LET run == <<Call("bcdecode", "", bc5_input, bc5_input, decoded)>> IN
    IF decoded
    THEN LET imp == import_to_shelf(out_dds, bc5_input, imported) IN
         [calls |-> run \o <<show_message_box("Import Successful")>> \o imp.calls,
          lines |-> <<Line("Running bcdecode", bc5_input),
                      Line("bcdecode successful", out_dds)>> \o imp.lines]
    ELSE [calls |-> run \o <<show_message_box("Error Importing BC5_SNORM DDS")>>,
          lines |-> <<Line("Running bcdecode", bc5_input),
                      Line("Error importing BC5_SNORM DDS", bc5_input)>>]

\* The calls, the log lines and the outcome of one on_import_bc5.
Bc5Run(bc5_input, out_dds, decoded, imported) ==
    LET exe == Get(config, "bcdecode", EmptyPath) IN
    IF bc5_input = EmptyPath \/ out_dds = EmptyPath
    THEN [calls |-> <<show_message_box("Cancelled")>>, lines |-> << >>, raised |-> FALSE]
    ELSE IF ~exe.ok
    THEN [calls |-> << >>, lines |-> << >>, raised |-> TRUE]
    ELSE IF ToolMissing(exe.val)
    THEN [calls |-> << >>, lines |-> <<Line("Invalid or missing bcdecode executable", EmptyPath)>>,
          raised |-> FALSE]
    ELSE LET d == Bc5Decode(bc5_input, out_dds, decoded, imported) IN
         [calls |-> d.calls, lines |-> d.lines, raised |-> FALSE]

on_import_bc5(bc5_input, out_dds, decoded, imported) ==
    /\ Ready
    /\ LET r == Bc5Run(bc5_input, out_dds, decoded, imported)
       IN /\ calls' = r.calls
          /\ log' = log \o r.lines
          /\ raised' = r.raised
    /\ handler' = "on_import_bc5"
    /\ logStart' = Len(log)
    /\ dds_files' = << >>
    /\ i' = 0
    /\ UNCHANGED <<PLUGIN_INSTANCE, config, cfgFile, exes, ddsContent, png, logVisible, pc>>

(***************************************************************************)
(* DDS import workflow.  on_import_dds runs up to the loop; the loop is    *)
(* one action per step for dds_file = dds_files[i].                        *)
(***************************************************************************)
\* What QFileDialog.getOpenFileNames can return: distinct files, in any order.
Selections ==
    {s \in UNION {[1..n -> DdsFiles] : n \in 0..Cardinality(DdsFiles)} :
        \A j, k \in DOMAIN s : j # k => s[j] # s[k]}

dds_file == dds_files[i]

on_import_dds(selected) ==
    /\ Ready
    /\ handler' = "on_import_dds"
    /\ calls' = << >>
    /\ logStart' = Len(log)
    /\ dds_files' = selected
    /\ LET texconv_exe == Get(config, "texconv", EmptyPath) IN
       IF selected = << >>
       THEN /\ log' = Append(log, Line("No DDS files selected for import", EmptyPath))
            /\ raised' = FALSE /\ i' = 0 /\ pc' = "idle"
       ELSE IF ~texconv_exe.ok
       THEN /\ raised' = TRUE /\ i' = 0 /\ pc' = "idle" /\ log' = log
       ELSE IF ToolMissing(texconv_exe.val)
       THEN /\ log' = Append(log, Line("Invalid or missing texconv executable", EmptyPath))
            /\ raised' = FALSE /\ i' = 0 /\ pc' = "idle"
       ELSE /\ raised' = FALSE /\ i' = 1 /\ pc' = "Convert" /\ log' = log
    /\ UNCHANGED <<PLUGIN_INSTANCE, config, cfgFile, exes, ddsContent, png, logVisible>>

\* The for statement: the next dds_file, or the end of the handler.
NextFile ==
    IF i < Len(dds_files) THEN pc' = "Convert" /\ i' = i + 1
    ELSE pc' = "idle" /\ i' = i

\* The except clause leaving the loop instead of going on with the next file.
FailedAbortsBatch(more) ==
    /\ log' = log \o more \o <<Line("Failed to process", dds_file)>>
    /\ pc' = "idle" /\ i' = i

\* except Exception as e: self.log(f"Failed to process ..."), after the lines
\* the step logged before it raised.
Failed(more) ==
    /\ log' = log \o more \o <<Line("Failed to process", dds_file)>>
    /\ NextFile

\* convert_dds_to_png(texconv_exe, dds_file, output_png)
Convert ==
    /\ pc = "Convert"
    /\ LET converted == ddsContent[dds_file] # TexconvFails
           before == <<Line("Converting to PNG using texconv", dds_file)>>
       IN /\ calls' = Append(calls, Call("texconv", "", dds_file, dds_file, converted))
          /\ IF converted
             THEN /\ png' = [png EXCEPT ![OutputPng(dds_file)] = ddsContent[dds_file]]
                  /\ log' = log \o before
                  /\ pc' = "ExtractAlpha" /\ i' = i
             ELSE /\ png' = png
                  /\ Failed(before)
    /\ UNCHANGED <<PLUGIN_INSTANCE, config, cfgFile, exes, ddsContent, logVisible,
                   handler, dds_files, logStart, raised>>

\* The loop calling remove_alpha_channel whatever extract_alpha_channel returned.
ExtractAlphaAlwaysStrips ==
    /\ pc = "ExtractAlpha"
    /\ LET r == extract_alpha_channel(png, OutputPng(dds_file), OutputAlphaPng(dds_file))
       IN /\ png' = r.fs
          /\ IF r.ret \in {"True", "False"} THEN pc' = "StripAlpha" /\ i' = i /\ log' = log
             ELSE Failed(<< >>)
    /\ UNCHANGED <<PLUGIN_INSTANCE, config, cfgFile, exes, ddsContent, logVisible,
                   handler, dds_files, calls, logStart, raised>>

\* if extract_alpha_channel(output_png, output_alpha_png):
ExtractAlpha ==
    /\ pc = "ExtractAlpha"
    /\ LET r == extract_alpha_channel(png, OutputPng(dds_file), OutputAlphaPng(dds_file))
       IN /\ png' = r.fs
          /\ IF r.ret = "True" THEN pc' = "StripAlpha" /\ i' = i /\ log' = log
             ELSE IF r.ret = "False"
             THEN /\ log' = Append(log, Line("No alpha channel found in", dds_file))
                  /\ pc' = "ImportOriginal" /\ i' = i
             ELSE Failed(<< >>)
    /\ UNCHANGED <<PLUGIN_INSTANCE, config, cfgFile, exes, ddsContent, logVisible,
                   handler, dds_files, calls, logStart, raised>>

\* remove_alpha_channel(output_png); self.log("Alpha channel extracted to ...")
StripAlpha ==
    /\ pc = "StripAlpha"
    /\ LET r == remove_alpha_channel(png, OutputPng(dds_file))
       IN /\ png' = r.fs
          /\ IF r.ret = "None"
             THEN /\ log' = Append(log, Line("Alpha channel extracted to", OutputAlphaPng(dds_file)))
                  /\ pc' = "ImportOriginal" /\ i' = i
             ELSE Failed(<< >>)
    /\ UNCHANGED <<PLUGIN_INSTANCE, config, cfgFile, exes, ddsContent, logVisible,
                   handler, dds_files, calls, logStart, raised>>

\* os.path.exists(output_alpha_png)
AlphaPngExists == png[OutputAlphaPng(dds_file)] # NoFile

\* self.log("Converted to ..."); self.import_to_shelf(output_png)
ImportOriginal(imported) ==
    /\ pc = "ImportOriginal"
    /\ LET imp == import_to_shelf(OutputPng(dds_file), dds_file, imported)
       IN /\ log' = log \o <<Line("Converted to", OutputPng(dds_file))>> \o imp.lines
          /\ calls' = calls \o imp.calls
    /\ IF AlphaPngExists THEN pc' = "ImportAlpha" /\ i' = i ELSE NextFile
    /\ UNCHANGED <<PLUGIN_INSTANCE, config, cfgFile, exes, ddsContent, png, logVisible,
                   handler, dds_files, logStart, raised>>

\* self.import_to_shelf(output_alpha_png)
ImportAlpha(imported) ==
    /\ pc = "ImportAlpha"
    /\ LET imp == import_to_shelf(OutputAlphaPng(dds_file), dds_file, imported)
       IN /\ log' = log \o imp.lines
          /\ calls' = calls \o imp.calls
    /\ NextFile
    /\ UNCHANGED <<PLUGIN_INSTANCE, config, cfgFile, exes, ddsContent, png, logVisible,
                   handler, dds_files, logStart, raised>>

(***************************************************************************)
(* The plugin in its surroundings.                                         *)
(***************************************************************************)
\* What the file dialog of a "set location" button can return.
ExeChoices == exes \cup {EmptyPath}

Next ==
    \/ \E writable \in BOOLEAN : start_plugin(writable)
    \/ close_plugin
    \/ toggle_log_visibility
    \/ clear_log
    \/ \E path \in ExeChoices, writable \in BOOLEAN : set_texconv_location(path, writable)
    \/ \E path \in ExeChoices, writable \in BOOLEAN : set_bcdecode_location(path, writable)
    \/ \E bc5_input \in {DdsX, EmptyPath}, out_dds \in {OutDds, EmptyPath},
          decoded \in BOOLEAN, imported \in BOOLEAN :
          on_import_bc5(bc5_input, out_dds, decoded, imported)
    \/ \E selected \in Selections : on_import_dds(selected)
    \/ Convert
    \/ ExtractAlpha
    \/ StripAlpha
    \/ \E imported \in BOOLEAN : ImportOriginal(imported)
    \/ \E imported \in BOOLEAN : ImportAlpha(imported)

NoPngs == [p \in PngPaths |-> NoFile]

\* Settings files a session can find at its start.
IniFile(paths) == [exists |-> TRUE, hasPaths |-> TRUE, paths |-> paths]
InitialIniFiles ==
    {NoIniFile, [exists |-> TRUE, hasPaths |-> FALSE, paths |-> NoOptions],
     IniFile([texconv |-> PlainExe, bcdecode |-> PlainExe]),
     IniFile([texconv |-> PlainExe]), IniFile([bcdecode |-> PlainExe]),
     IniFile([texconv |-> PercentExe, bcdecode |-> PlainExe])}

InitPlugin ==
    /\ PLUGIN_INSTANCE = "None"
    /\ config = NewConfigParser
    /\ log = << >>
    /\ logVisible = TRUE
    /\ handler = "none"
    /\ pc = "idle"
    /\ dds_files = << >>
    /\ i = 0
    /\ calls = << >>
    /\ logStart = 0
    /\ raised = FALSE

\* Any settings file, every executable of the dialog on disk, two textures.
Init ==
    /\ InitPlugin
    /\ cfgFile \in InitialIniFiles
    /\ exes = {PlainExe, PercentExe, EscapedExe}
    /\ ddsContent = [f \in DdsFiles |-> IF f = DdsX THEN Img("RGBA", 0, MaxPixel) ELSE TexconvFails]
    /\ png = NoPngs

Spec == Init /\ [][Next]_vars

\* A session with both tools set and on disk, any two textures, and possibly
\* an alpha PNG of x left by an earlier import.
InitDds ==
    /\ InitPlugin
    /\ cfgFile = IniFile([texconv |-> PlainExe, bcdecode |-> PlainExe])
    /\ exes = {PlainExe}
    /\ ddsContent \in [DdsFiles -> DdsContents]
    /\ png \in {NoPngs, [NoPngs EXCEPT ![OutputAlphaPng(DdsX)] = Img("L", 0, -1)]}

SpecDds == InitDds /\ [][Next]_vars

(***************************************************************************)
(* The image post-processor on its own: any PNG files, and the two         *)
(* functions called as the loop calls them.                                *)
(***************************************************************************)
ExtractCall(f) ==
    /\ LET r == extract_alpha_channel(png, OutputPng(f), OutputAlphaPng(f))
       IN /\ png' = r.fs
          /\ calls' = <<Call("extract_alpha_channel", r.ret, OutputPng(f), f, TRUE)>>
    /\ handler' = "extract_alpha_channel"
    /\ UNCHANGED <<PLUGIN_INSTANCE, config, cfgFile, exes, ddsContent, log, logVisible,
                   pc, dds_files, i, logStart, raised>>

RemoveCall(f) ==
    /\ LET r == remove_alpha_channel(png, OutputPng(f))
       IN /\ png' = r.fs
          /\ calls' = <<Call("remove_alpha_channel", r.ret, OutputPng(f), f, TRUE)>>
    /\ handler' = "remove_alpha_channel"
    /\ UNCHANGED <<PLUGIN_INSTANCE, config, cfgFile, exes, ddsContent, log, logVisible,
                   pc, dds_files, i, logStart, raised>>

NextImage ==
    \/ \E f \in DdsFiles : ExtractCall(f)
    \/ \E f \in DdsFiles : RemoveCall(f)

InitImage ==
    /\ InitPlugin
    /\ cfgFile = NoIniFile
    /\ exes = {}
    /\ ddsContent = [f \in DdsFiles |-> TexconvFails]
    /\ png \in [PngPaths -> Images \cup {NoFile, Corrupt}]

SpecImage == InitImage /\ [][NextImage]_vars

(***************************************************************************)
(* Properties.                                                             *)
(***************************************************************************)
\* The lines the handler invoked last has logged.
RunLog == SubSeq(log, logStart + 1, Len(log))
Logged(line) == \E k \in DOMAIN RunLog : RunLog[k] = line
CallsOf(op) == SelectSeq(calls, LAMBDA c : c.op = op)
HostImports == CallsOf("import_session_resource")
Modals == CallsOf("QMessageBox")
\* on_import_dds has entered its loop (the selection is not empty, texconv is valid).
InLoop == handler = "on_import_dds" /\ i >= 1
\* The image has an alpha band.
HasAlpha(img) == "A" \in getbands(img)

\* C1: in a batch import, a file whose conversion fails does not stop the
\* batch: texconv is run for the files in selection order, for every file once
\* the loop is over, nothing of a failed file is handed to the host import, and
\* exactly one "Failed to process" line is logged for it.
C1_FailureIsolation ==
    InLoop =>
        LET attempts == CallsOf("texconv")
            attempted == IF pc = "idle" THEN Len(dds_files)
                         ELSE IF pc = "Convert" THEN i - 1 ELSE i
        IN /\ Len(attempts) = attempted
           /\ \A k \in DOMAIN attempts :
                /\ attempts[k].path = dds_files[k]
                /\ ~attempts[k].ok =>
                     /\ \A m \in DOMAIN HostImports : HostImports[m].job # dds_files[k]
                     /\ Cardinality({n \in DOMAIN RunLog :
                            RunLog[n] = Line("Failed to process", dds_files[k])}) = 1

\* A batch of two is over: the first conversion failed, the second file was
\* converted and imported.
C1_Witness ==
    /\ InLoop /\ pc = "idle" /\ Len(dds_files) = 2
    /\ Len(CallsOf("texconv")) = 2
    /\ ~CallsOf("texconv")[1].ok /\ CallsOf("texconv")[2].ok
    /\ \E m \in DOMAIN HostImports : HostImports[m].job = dds_files[2] /\ HostImports[m].ok

\* The for statement has moved on from dds_files[i].
MovedOn == (pc' = "Convert" /\ i' = i + 1) \/ (pc' = "idle" /\ i' = i)
StaysOn(step) == pc' = step /\ i' = i

\* C10: the steps of one file run in the order Convert, ExtractAlpha,
\* StripAlpha, ImportOriginal, ImportAlpha; StripAlpha is entered only from an
\* ExtractAlpha that found an alpha band in the converted PNG, left that PNG as
\* texconv wrote it and saved its alpha band as the alpha PNG; and a PNG is
\* written only by Convert (the converted PNG), by such an ExtractAlpha (the
\* alpha PNG) and by StripAlpha (the converted PNG).
C10_StepOrder ==
    [][ /\ pc = "idle" /\ pc' # "idle" => pc' = "Convert" /\ i' = 1
        /\ pc = "Convert" => StaysOn("ExtractAlpha") \/ MovedOn
        /\ pc = "ExtractAlpha" => StaysOn("StripAlpha") \/ StaysOn("ImportOriginal") \/ MovedOn
        /\ pc = "StripAlpha" => StaysOn("ImportOriginal") \/ MovedOn
        /\ pc = "ImportOriginal" => StaysOn("ImportAlpha") \/ MovedOn
        /\ pc = "ImportAlpha" => MovedOn
        /\ pc' = "StripAlpha" =>
              /\ pc = "ExtractAlpha"
              /\ HasAlpha(png[OutputPng(dds_file)])
              /\ png[OutputPng(dds_file)] = ddsContent[dds_file]
              /\ png'[OutputPng(dds_file)] = png[OutputPng(dds_file)]
              /\ png'[OutputAlphaPng(dds_file)] = Img("L", png[OutputPng(dds_file)].alpha, -1)
        /\ \A p \in PngPaths : png'[p] # png[p] =>
              \/ pc = "Convert" /\ p = OutputPng(dds_file)
              \/ pc = "ExtractAlpha" /\ pc' = "StripAlpha" /\ p = OutputAlphaPng(dds_file)
              \/ pc = "StripAlpha" /\ p = OutputPng(dds_file) /\ ~HasAlpha(png'[p])
      ]_vars

\* StripAlpha has rewritten a converted RGBA PNG whose alpha PNG holds the
\* alpha value texconv wrote, and the original is about to be imported.
C10_Witness ==
    /\ InLoop /\ pc = "ImportOriginal"
    /\ ddsContent[dds_file] = Img("RGBA", 0, MaxPixel)
    /\ png[OutputPng(dds_file)] = Img("RGB", 0, -1)
    /\ png[OutputAlphaPng(dds_file)] = Img("L", MaxPixel, -1)
    /\ Logged(Line("Alpha channel extracted to", OutputAlphaPng(dds_file)))

\* The file whose pass has just ended.
PassOver == InLoop /\ (pc = "idle" \/ (pc = "Convert" /\ i > 1))
JustDone == IF pc = "idle" THEN dds_files[i] ELSE dds_files[i - 1]
ImportedPaths(job) == [k \in DOMAIN SelectSeq(HostImports, LAMBDA c : c.job = job) |->
                          SelectSeq(HostImports, LAMBDA c : c.job = job)[k].path]

\* C3: after the pass over a file whose converted PNG has an alpha band, the
\* alpha PNG exists, the converted PNG has no alpha band any more, and the
\* converted PNG and then the alpha PNG were handed to the host import.
C3_AlphaSplit ==
    PassOver /\ ddsContent[JustDone] \in Images /\ HasAlpha(ddsContent[JustDone]) =>
        /\ png[OutputAlphaPng(JustDone)] # NoFile
        /\ ~HasAlpha(png[OutputPng(JustDone)])
        /\ ImportedPaths(JustDone) = <<OutputPng(JustDone), OutputAlphaPng(JustDone)>>

\* C4: the alpha PNG of a file is handed to the host import only if this
\* pass has extracted it (the pass logged "Alpha channel extracted to" for it);
\* a file whose converted PNG has no alpha band gets no alpha import.
C4_AlphaImportOnlyIfExtracted ==
    handler = "on_import_dds" =>
        \A k \in DOMAIN HostImports :
            HostImports[k].path = OutputAlphaPng(HostImports[k].job) =>
                /\ Logged(Line("Alpha channel extracted to", HostImports[k].path))
                /\ ~Logged(Line("No alpha channel found in", HostImports[k].job))

\* The option's configured path is unset, empty or names no existing file.
ToolInvalid(option) ==
    LET exe == Get(config, option, EmptyPath) IN exe.ok /\ (exe.val = EmptyPath \/ exe.val \notin exes)
NoToolNoImport == CallsOf("texconv") = << >> /\ CallsOf("bcdecode") = << >> /\ HostImports = << >>

\* C2, as stated: a workflow started while its tool path is unset or names no
\* existing file runs no external tool, calls no host import and logs an abort
\* message.
C2_AbortLogged ==
    /\ handler = "on_import_bc5" /\ ToolInvalid("bcdecode") => NoToolNoImport /\ RunLog # << >>
    /\ handler = "on_import_dds" /\ ToolInvalid("texconv") => NoToolNoImport /\ RunLog # << >>

\* C2, amended: such a run runs no external tool and calls no host import; the
\* DDS import logs one abort line (no files selected, or the invalid texconv);
\* the BC5 decode logs the invalid bcdecode once both file dialogs were
\* answered, and after a cancelled dialog it shows the "Cancelled" box and logs
\* nothing.
C2_AbortBeforeTool ==
    /\ handler = "on_import_bc5" /\ ToolInvalid("bcdecode") =>
          /\ NoToolNoImport
          /\ \/ calls = <<show_message_box("Cancelled")>> /\ RunLog = << >>
             \/ calls = << >>
                /\ RunLog = <<Line("Invalid or missing bcdecode executable", EmptyPath)>>
    /\ handler = "on_import_dds" /\ ToolInvalid("texconv") =>
          /\ calls = << >> /\ pc = "idle"
          /\ RunLog = IF dds_files = << >>
                      THEN <<Line("No DDS files selected for import", EmptyPath)>>
                      ELSE <<Line("Invalid or missing texconv executable", EmptyPath)>>

\* A BC5 decode with both dialogs answered has stopped at the default bcdecode
\* path, which names no file.
C2_Witness ==
    /\ handler = "on_import_bc5"
    /\ config.paths["bcdecode"] = DefaultBcdecode /\ DefaultBcdecode \notin exes
    /\ calls = << >>
    /\ RunLog = <<Line("Invalid or missing bcdecode executable", EmptyPath)>>

\* What a new session reads for an option from the settings file.
FreshGet(file, option) == Get(load_config(file, TRUE).config, option, NotSet)

\* C5: once a "set location" action has stored a path and saved the settings
\* file, a new session reads exactly that path back for the option.
C5_RoundTrip ==
    [][\A p \in exes :
          /\ set_texconv_location(p, TRUE) /\ before_set(p) =>
                FreshGet(cfgFile', "texconv") = [ok |-> TRUE, val |-> p]
          /\ set_bcdecode_location(p, TRUE) /\ before_set(p) =>
                FreshGet(cfgFile', "bcdecode") = [ok |-> TRUE, val |-> p]
      ]_vars

\* The configuration reads the two default paths.
ReadsDefaults(cfg) ==
    /\ Get(cfg, "texconv", NotSet) = [ok |-> TRUE, val |-> DefaultTexconv]
    /\ Get(cfg, "bcdecode", NotSet) = [ok |-> TRUE, val |-> DefaultBcdecode]
\* Within a session only a "set location" action changes the configuration.
OnlySetChangesConfig ==
    Running /\ Running' /\ config' # config =>
        handler' \in {"set_texconv_location", "set_bcdecode_location"}

\* C6, as stated: a start that finds no settings file leaves a settings file
\* with section Paths and the two default paths, and the configuration reads
\* those two paths (until a "set location" action stores another).
C6_DefaultsWritten ==
    [][ /\ \A writable \in BOOLEAN : start_plugin(writable) /\ ~cfgFile.exists =>
              /\ cfgFile' = IniFile(DefaultPaths)
              /\ Running' /\ ReadsDefaults(config')
        /\ OnlySetChangesConfig
      ]_vars

\* C6, amended: such a start leaves the configuration reading the two default
\* paths (until a "set location" action stores another) and shows them in the
\* log; it leaves a settings file with section Paths and the two default paths
\* if the file could be written, and otherwise leaves no file and logs
\* "Failed to save configuration".
C6_DefaultsOnFirstRun ==
    [][ /\ \A writable \in BOOLEAN : start_plugin(writable) /\ ~cfgFile.exists =>
              /\ Running' /\ ReadsDefaults(config')
              /\ \E k \in DOMAIN log' : log'[k] = Line("texconv location", DefaultTexconv)
              /\ \E k \in DOMAIN log' : log'[k] = Line("bcdecode location", DefaultBcdecode)
              /\ IF writable
                 THEN cfgFile' = IniFile(DefaultPaths) /\ Len(log') = 3
                 ELSE /\ cfgFile' = NoIniFile
                      /\ log'[1] = Line("Failed to save configuration", EmptyPath)
        /\ OnlySetChangesConfig
      ]_vars

\* A session has started without a settings file and written the defaults.
C6_Witness ==
    /\ Running /\ handler = "start_plugin"
    /\ cfgFile = IniFile(DefaultPaths)
    /\ ReadsDefaults(config)
    /\ log = <<Line("texconv location", DefaultTexconv),
               Line("bcdecode location", DefaultBcdecode),
               Line("Pillow installed: Yes", EmptyPath)>>

\* C7: extract_alpha_channel returns False and writes nothing for an image
\* without an alpha band; for an image with one (RGBA, and LA) it returns True
\* and writes, at the output path only, a one-band image holding the source's
\* alpha values; the input file stays as it was.
C7_ExtractAlpha ==
    [][\A f \in DdsFiles : ExtractCall(f) =>
          LET img == png[OutputPng(f)] IN
          /\ img.mode \in {"RGB", "L"} => calls'[1].what = "False" /\ png' = png
          /\ img.mode \in {"RGBA", "LA"} =>
                /\ calls'[1].what = "True"
                /\ png' = [png EXCEPT ![OutputAlphaPng(f)] = Img("L", img.alpha, -1)]
                /\ png'[OutputPng(f)] = img
      ]_vars

\* The alpha band of an RGBA image whose colour differs from its alpha has
\* been extracted.
C7_Witness ==
    /\ handler = "extract_alpha_channel"
    /\ calls[1].what = "True"
    /\ png[calls[1].path] = Img("RGBA", 0, MaxPixel)
    /\ png[OutputAlphaPng(calls[1].job)] = Img("L", MaxPixel, -1)

Buttons ==
    {"on_import_dds", "on_import_bc5", "set_texconv_location", "set_bcdecode_location",
     "toggle_log_visibility", "clear_log"}
\* Every failed call of the handler invoked last has its line in the log.
FailuresLogged ==
    \A k \in DOMAIN calls : ~calls[k].ok =>
        CASE calls[k].op = "texconv" -> Logged(Line("Failed to process", calls[k].job))
          [] calls[k].op = "bcdecode" -> Logged(Line("Error importing BC5_SNORM DDS", calls[k].job))
          [] OTHER -> Logged(Line("Failed to import to shelf", calls[k].path))

C9_Bc5Outcome ==
    handler = "on_import_bc5" /\ CallsOf("bcdecode") # << >> =>
        /\ Len(CallsOf("bcdecode")) = 1 /\ calls[1].op = "bcdecode"
        /\ Len(Modals) = 1
        /\ IF calls[1].ok
           THEN /\ Modals[1].what = "Import Successful"
                /\ Len(HostImports) = 1
                /\ Logged(Line("bcdecode successful", HostImports[1].path))
                /\ IF HostImports[1].ok
                   THEN Logged(Line("Imported to shelf", HostImports[1].path))
                   ELSE Logged(Line("Failed to import to shelf", HostImports[1].path))
           ELSE /\ Modals[1].what = "Error Importing BC5_SNORM DDS"
                /\ HostImports = << >>
                /\ Logged(Line("Error importing BC5_SNORM DDS", calls[1].job))

\* bcdecode exited with code 0 and the import of the output DDS failed.
C9_Witness ==
    /\ handler = "on_import_bc5"
    /\ Len(calls) = 3
    /\ calls[1].op = "bcdecode" /\ calls[1].ok
    /\ calls[2] = show_message_box("Import Successful")
    /\ calls[3].op = "import_session_resource" /\ calls[3].path = OutDds /\ ~calls[3].ok
    /\ Logged(Line("Failed to import to shelf", OutDds))

====
